---- MODULE Spec2Model ----
(***************************************************************************)
(* Model of scripts/validate_resource_instances.py: the type grammar       *)
(* parser (parse_type, StatType.element_type), the schema compiler         *)
(* (parse_stats_file, load_schema), the recursive validator                *)
(* (validate_resource_instance, validate_value) and the single-file run    *)
(* of main().                                                              *)
(*                                                                         *)
(* Decoded JSON values are tagged records [t |-> <python type name>,       *)
(* <payload>]; a dict is a sequence of <<key, value>> pairs with            *)
(* unique keys, in insertion order, as json.loads builds it.  Python's     *)
(* None (also JSON null) is [t |-> "NoneType"].                            *)
(***************************************************************************)
EXTENDS Integers, Sequences, FiniteSets, TLC

VARIABLES
    pc,          \* position of the run, per specification
    type_token,  \* parse_type's argument
    parsed,      \* the StatType parse_type returned
    element,     \* the StatType element_type() returned
    value,       \* validate_value's argument
    stat_type,   \* validate_value's type descriptor
    path_stack,  \* validate_value's path
    file_path,   \* main: the --file argument
    resources_root, \* main: the system's resources folder
    schema,      \* main: load_schema's result
    data,        \* main: read_json's result
    errors,      \* the errors list
    output,      \* main: the lines printed
    exit_code    \* main: the return value

vars == <<pc, type_token, parsed, element, value, stat_type, path_stack,
          file_path, resources_root, schema, data, errors, output, exit_code>>

----------------------------------------------------------------------------
(* Python values *)

JNone == [t |-> "NoneType"]
JBool(b) == [t |-> "bool", b |-> b]
JInt(n) == [t |-> "int", n |-> n]
JFloat(literal) == [t |-> "float", f |-> literal]
JStr(s) == [t |-> "str", s |-> s]
JList(items) == [t |-> "list", items |-> items]
JDict(pairs) == [t |-> "dict", pairs |-> pairs]

\* isinstance(x, cls): bool is a subclass of int
isinstance(x, cls) ==
    \/ x.t = cls
    \/ cls = "int" /\ x.t = "bool"

\* key in d
Has(d, k) == \E i \in 1..Len(d.pairs) : d.pairs[i][1] = k

\* d.get(k): None when the key is absent
Get(d, k) ==
    IF Has(d, k)
    THEN d.pairs[CHOOSE i \in 1..Len(d.pairs) : d.pairs[i][1] = k][2]
    ELSE JNone

\* s.startswith(p), s.endswith(p)
startswith(s, p) == Len(s) >= Len(p) /\ SubSeq(s, 1, Len(p)) = p
endswith(s, p) == Len(s) >= Len(p) /\ SubSeq(s, Len(s) - Len(p) + 1, Len(s)) = p

RECURSIVE repr(_)
RECURSIVE repr_items(_, _)
RECURSIVE repr_pairs(_, _)

\* repr(x), as an f-string renders a value inside a container
repr(x) ==
    CASE x.t = "NoneType" -> "None"
      [] x.t = "bool" -> IF x.b THEN "True" ELSE "False"
      [] x.t = "int" -> ToString(x.n)
      [] x.t = "float" -> x.f
      [] x.t = "str" -> "'" \o x.s \o "'"
      [] x.t = "list" -> "[" \o repr_items(x.items, 1) \o "]"
      [] x.t = "dict" -> "{" \o repr_pairs(x.pairs, 1) \o "}"

repr_items(items, i) ==
    IF i > Len(items) THEN ""
    ELSE (IF i > 1 THEN ", " ELSE "") \o repr(items[i]) \o repr_items(items, i + 1)

repr_pairs(pairs, i) ==
    IF i > Len(pairs) THEN ""
    ELSE (IF i > 1 THEN ", " ELSE "") \o "'" \o pairs[i][1] \o "': "
         \o repr(pairs[i][2]) \o repr_pairs(pairs, i + 1)

\* str(x), as an f-string renders a value
str(x) == IF x.t = "str" THEN x.s ELSE repr(x)

----------------------------------------------------------------------------
(* Type grammar *)

META_STATS == {"id", "updated_at"}

StatType(kind, is_array, resource_type) ==
    [kind |-> kind, is_array |-> is_array, resource_type |-> resource_type]

element_type_keeps_array(self) == StatType(self.kind, self.is_array, self.resource_type)

element_type(self) == StatType(self.kind, FALSE, self.resource_type)

parse_type(token) ==
    LET is_array == endswith(token, "[]")
        core == IF is_array THEN SubSeq(token, 1, Len(token) - 2) ELSE token
    IN  IF startswith(core, "resource<") /\ endswith(core, ">")
        THEN StatType("resource", is_array,
                      JStr(SubSeq(core, Len("resource<") + 1, Len(core) - 1)))
        ELSE IF core = "resource"
        THEN StatType("resource", is_array, JNone)
        ELSE IF core \in {"string", "bool", "integer", "photo"}
        THEN StatType(core, is_array, JNone)
        ELSE StatType("unknown", is_array, JNone)

----------------------------------------------------------------------------
(* Error trail *)

RECURSIVE join(_, _, _)
\* sep.join(parts[i:])
join(sep, parts, i) ==
    IF i > Len(parts) THEN ""
    ELSE parts[i] \o (IF i < Len(parts) THEN sep ELSE "") \o join(sep, parts, i + 1)

format_path(stack) == IF stack # <<>> THEN join(" -> ", stack, 1) ELSE "<root>"

\* A path is the sequence of its components below "/".
display_path(path, root) ==
    IF Len(path) >= Len(root) /\ SubSeq(path, 1, Len(root)) = root
    THEN join("/", SubSeq(path, Len(root) + 1, Len(path)), 1)
    ELSE "/" \o join("/", path, 1)

resource_label(resource_obj) ==
    LET rid == Get(resource_obj, "resource_id")
        stats == Get(resource_obj, "stats")
        rid_text == IF isinstance(rid, "str")
                    THEN "resource_id='" \o rid.s \o "'"
                    ELSE "resource_id<?>"
    IN  IF isinstance(stats, "dict")
           /\ isinstance(Get(stats, "id"), "str") /\ Get(stats, "id").s # ""
        THEN rid_text \o " (id='" \o Get(stats, "id").s \o "')"
        ELSE rid_text

\* The error add_error appends: the three parts of
\* f"{display_path(file_path, repo_root)}: {location}: {message}".
add_error(path, root, stack, message) ==
    <<[file |-> display_path(path, root),
       location |-> format_path(stack),
       message |-> message]>>

\* One line of the report, "- " + the error's text.
render(err) == "- " \o err.file \o ": " \o err.location \o ": " \o err.message

----------------------------------------------------------------------------
(* Validation engine.  Each operator returns the errors the function     *)
(* appends to its errors argument, in order.                              *)

RECURSIVE validate_resource_instance(_, _, _, _, _)
RECURSIVE validate_stats(_, _, _, _, _, _, _)
RECURSIVE validate_value(_, _, _, _, _, _)
RECURSIVE validate_items(_, _, _, _, _, _, _)

validate_stat_checks_meta(stat_name, stat_value, stats_schema, sch, path, root, current_stack) ==
    IF stat_name \notin DOMAIN stats_schema
    THEN add_error(path, root, current_stack \o <<"stats." \o stat_name>>,
                   "Unknown stat for this resource")
    ELSE IF ~isinstance(stat_value, "dict") \/ ~Has(stat_value, "value")
    THEN add_error(path, root, current_stack \o <<"stats." \o stat_name>>,
                   "Expected an object with a 'value' field")
    ELSE validate_value(Get(stat_value, "value"), stats_schema[stat_name], sch,
                        path, root,
                        current_stack \o <<"stats." \o stat_name \o ".value">>)

\* Lines 159-189: one iteration of the loop over stats.items()
validate_stat(stat_name, stat_value, stats_schema, sch, path, root, current_stack) ==
    IF stat_name \in META_STATS THEN <<>>
    ELSE IF stat_name \notin DOMAIN stats_schema
    THEN add_error(path, root, current_stack \o <<"stats." \o stat_name>>,
                   "Unknown stat for this resource")
    ELSE IF ~isinstance(stat_value, "dict") \/ ~Has(stat_value, "value")
    THEN add_error(path, root, current_stack \o <<"stats." \o stat_name>>,
                   "Expected an object with a 'value' field")
    ELSE validate_value(Get(stat_value, "value"), stats_schema[stat_name], sch,
                        path, root,
                        current_stack \o <<"stats." \o stat_name \o ".value">>)

validate_stats_stops_at_error(pairs, i, stats_schema, sch, path, root, current_stack) ==
    IF i > Len(pairs) THEN <<>>
    ELSE LET first == validate_stat(pairs[i][1], pairs[i][2], stats_schema, sch,
                                    path, root, current_stack)
         IN  IF first # <<>> THEN first
             ELSE validate_stats(pairs, i + 1, stats_schema, sch, path, root,
                                 current_stack)

\* Line 159: the loop over stats.items(), from the i-th pair on
validate_stats(pairs, i, stats_schema, sch, path, root, current_stack) ==
    IF i > Len(pairs) THEN <<>>
    ELSE validate_stat(pairs[i][1], pairs[i][2], stats_schema, sch, path, root,
                       current_stack)
         \o validate_stats(pairs, i + 1, stats_schema, sch, path, root, current_stack)

validate_against_schema_goes_on(resource_obj, rid, sch, path, root, stack) ==
    (IF rid \notin DOMAIN sch
     THEN add_error(path, root, stack \o <<"resource_id='" \o rid \o "'">>,
                    "Unknown resource_id (no stats.rpgs found)")
     ELSE <<>>)
    \o LET stats == Get(resource_obj, "stats") IN
       IF ~isinstance(stats, "dict")
       THEN add_error(path, root, stack \o <<resource_label(resource_obj)>>,
                      "Missing or invalid stats object, got " \o stats.t)
       ELSE validate_stats(stats.pairs, 1,
                           IF rid \in DOMAIN sch THEN sch[rid] ELSE <<>>,
                           sch, path, root,
                           stack \o <<resource_label(resource_obj)>>)

\* Lines 136-189: the schema lookup, the stats shape check and the loop
validate_against_schema(resource_obj, rid, sch, path, root, stack) ==
    IF rid \notin DOMAIN sch
    THEN add_error(path, root, stack \o <<"resource_id='" \o rid \o "'">>,
                   "Unknown resource_id (no stats.rpgs found)")
    ELSE LET stats == Get(resource_obj, "stats") IN
    IF ~isinstance(stats, "dict")
    THEN add_error(path, root, stack \o <<resource_label(resource_obj)>>,
                   "Missing or invalid stats object, got " \o stats.t)
    ELSE validate_stats(stats.pairs, 1, sch[rid], sch, path, root,
                        stack \o <<resource_label(resource_obj)>>)

validate_resource_instance(resource_obj, sch, path, root, stack) ==
    IF ~isinstance(resource_obj, "dict")
    THEN add_error(path, root, stack,
                   "Expected object for resource, got " \o resource_obj.t)
    ELSE LET rid == Get(resource_obj, "resource_id") IN
    IF ~isinstance(rid, "str") \/ rid.s = ""
    THEN add_error(path, root, stack, "Missing or invalid resource_id")
    ELSE validate_against_schema(resource_obj, rid.s, sch, path, root, stack)

validate_items_stops_at_error(items, idx, elem_type, sch, path, root, stack) ==
    IF idx >= Len(items) THEN <<>>
    ELSE LET first == IF items[idx + 1] = JNone /\ elem_type.kind = "resource"
                      THEN <<>>
                      ELSE validate_value(items[idx + 1], elem_type, sch, path, root,
                                          stack \o <<"[" \o ToString(idx) \o "]">>)
         IN  IF first # <<>> THEN first
             ELSE validate_items(items, idx + 1, elem_type, sch, path, root, stack)

\* Lines 215-226: the loop over enumerate(value), from index idx (0-based) on
validate_items(items, idx, elem_type, sch, path, root, stack) ==
    IF idx >= Len(items) THEN <<>>
    ELSE (IF items[idx + 1] = JNone /\ elem_type.kind = "resource"
          THEN <<>>
          ELSE validate_value(items[idx + 1], elem_type, sch, path, root,
                              stack \o <<"[" \o ToString(idx) \o "]">>))
         \o validate_items(items, idx + 1, elem_type, sch, path, root, stack)

validate_array_keeps_array_flag(val, st, sch, path, root, stack) ==
    IF ~isinstance(val, "list")
    THEN add_error(path, root, stack, "Expected array, got " \o val.t)
    ELSE validate_items(val.items, 0, st, sch, path, root, stack)

\* Lines 204-227: the branch of an array type
validate_array(val, st, sch, path, root, stack) ==
    IF ~isinstance(val, "list")
    THEN add_error(path, root, stack, "Expected array, got " \o val.t)
    ELSE validate_items(val.items, 0, element_type(st), sch, path, root, stack)

\* Lines 232-241
validate_string(val, path, root, stack) ==
    IF ~isinstance(val, "str")
    THEN add_error(path, root, stack, "Expected string, got " \o val.t)
    ELSE <<>>

\* Lines 242-251
validate_bool(val, path, root, stack) ==
    IF ~isinstance(val, "bool")
    THEN add_error(path, root, stack, "Expected bool, got " \o val.t)
    ELSE <<>>

validate_integer_accepts_bool(val, path, root, stack) ==
    IF ~(isinstance(val, "int") \/ isinstance(val, "float"))
    THEN add_error(path, root, stack, "Expected number, got " \o val.t)
    ELSE <<>>

\* Lines 252-261
validate_integer(val, path, root, stack) ==
    IF isinstance(val, "bool") \/ ~(isinstance(val, "int") \/ isinstance(val, "float"))
    THEN add_error(path, root, stack, "Expected number, got " \o val.t)
    ELSE <<>>

\* Lines 262-280
validate_photo(val, path, root, stack) ==
    IF ~isinstance(val, "dict")
    THEN add_error(path, root, stack, "Expected photo object, got " \o val.t)
    ELSE IF Has(val, "url") /\ ~isinstance(Get(val, "url"), "str")
    THEN add_error(path, root, stack \o <<"url">>,
                   "Expected url string, got " \o Get(val, "url").t)
    ELSE <<>>

check_resource_id_compares_empty(val, st, path, root, stack) ==
    LET expected == st.resource_type
        actual == Get(val, "resource_id")
    IN  IF expected # JNone /\ actual # expected
        THEN add_error(path, root, stack,
                       "Expected resource_id '" \o expected.s
                       \o "', got '" \o str(actual) \o "'")
        ELSE <<>>

\* Lines 291-300: the resource-kind identity check; `expected` is truthy when
\* it is neither None nor the empty string
check_resource_id(val, st, path, root, stack) ==
    LET expected == st.resource_type
        actual == Get(val, "resource_id")
    IN  IF expected # JNone /\ expected.s # "" /\ actual # expected
        THEN add_error(path, root, stack,
                       "Expected resource_id '" \o expected.s
                       \o "', got '" \o str(actual) \o "'")
        ELSE <<>>

validate_resource_stops_at_mismatch(val, st, sch, path, root, stack) ==
    IF ~isinstance(val, "dict")
    THEN add_error(path, root, stack, "Expected resource object, got " \o val.t)
    ELSE IF check_resource_id(val, st, path, root, stack) # <<>>
    THEN check_resource_id(val, st, path, root, stack)
    ELSE validate_resource_instance(val, sch, path, root, stack)

\* Lines 281-308
validate_resource(val, st, sch, path, root, stack) ==
    IF ~isinstance(val, "dict")
    THEN add_error(path, root, stack, "Expected resource object, got " \o val.t)
    ELSE check_resource_id(val, st, path, root, stack)
         \o validate_resource_instance(val, sch, path, root, stack)

\* Lines 229-308: the dispatch on the kind of a non-array type
validate_kind(val, st, sch, path, root, stack) ==
    LET kind == st.kind IN
    CASE kind = "unknown" -> <<>>
      [] kind = "string" -> validate_string(val, path, root, stack)
      [] kind = "bool" -> validate_bool(val, path, root, stack)
      [] kind = "integer" -> validate_integer(val, path, root, stack)
      [] kind = "photo" -> validate_photo(val, path, root, stack)
      [] kind = "resource" -> validate_resource(val, st, sch, path, root, stack)
      [] OTHER -> <<>>

validate_value_without_null_rule(val, st, sch, path, root, stack) ==
    IF st.is_array THEN validate_array(val, st, sch, path, root, stack)
    ELSE validate_kind(val, st, sch, path, root, stack)

\* Lines 192-308
validate_value(val, st, sch, path, root, stack) ==
    IF val = JNone THEN <<>>
    ELSE IF st.is_array THEN validate_array(val, st, sch, path, root, stack)
    ELSE validate_kind(val, st, sch, path, root, stack)

----------------------------------------------------------------------------
(* Schema compiler and registry *)

\* A line of a stats.rpgs file is read as the fields BASE_STAT_PATTERN looks
\* for: its first word, the type token and identifier after it, and whether
\* an opening parenthesis follows the identifier.
Line(head, token, name, paren) ==
    [head |-> head, type_token |-> token, stat_name |-> name, paren |-> paren]

BASE_STAT_PATTERN_match(line) == line.head = "base" /\ line.paren

RECURSIVE parse_stats_file(_, _)
\* The stats dict after the lines up to the n-th: a later declaration of a
\* name overwrites an earlier one.
parse_stats_file(lines, n) ==
    IF n = 0 THEN <<>>
    ELSE LET stats == parse_stats_file(lines, n - 1)
             line == lines[n]
         IN  IF line.head # "base" \/ ~BASE_STAT_PATTERN_match(line)
             THEN stats
             ELSE [name \in DOMAIN stats \cup {line.stat_name} |->
                     IF name = line.stat_name
                     THEN parse_type(line.type_token)
                     ELSE stats[name]]

\* A resources folder is the set of its directories, each with its name, the
\* names of its files and the lines of its stats.rpgs.
load_schema(resources) ==
    LET dirs == {d \in resources.dirs : "stats.rpgs" \in d.files}
    IN  [resource_id \in {d.name : d \in dirs} |->
            LET d == CHOOSE d \in dirs : d.name = resource_id
            IN  parse_stats_file(d.lines, Len(d.lines))]

----------------------------------------------------------------------------
(* The inputs of the runs *)

\* How many stats a generated top-level document holds at most.
MaxStats == 2
\* How many array markers a generated type token ends with at most.
MaxMarkers == 2

repo_root == <<"repo">>

OrcLines == <<
    Line("resource", "", "orc", FALSE),
    Line("base", "integer", "hp", TRUE),
    Line("base", "string", "name", TRUE),
    Line("base", "bool", "alive", TRUE),
    Line("base", "photo", "portrait", TRUE),
    Line("base", "resource<axe>", "weapon", TRUE),
    Line("base", "resource<sword>", "weapon", TRUE),
    Line("base", "resource<sword>[]", "blades", TRUE),
    Line("base", "resource<>", "pet", TRUE),
    Line("base", "resource", "mount", TRUE),
    Line("base", "integer[]", "rolls", TRUE),
    Line("base", "dice", "misc", TRUE),
    Line("base", "integer", "id", TRUE),
    Line("base", "integer", "ghost", FALSE),
    Line("derived", "integer", "level", TRUE) >>

SwordLines == <<
    Line("base", "integer", "damage", TRUE),
    Line("base", "resource<orc>", "owner", TRUE) >>

Resources == [is_dir |-> TRUE,
              dirs |-> {[name |-> "orc", files |-> {"stats.rpgs"}, lines |-> OrcLines],
                        [name |-> "sword", files |-> {"stats.rpgs", "notes.txt"},
                         lines |-> SwordLines],
                        [name |-> "axe", files |-> {"notes.txt"}, lines |-> <<>>]}]

MissingResources == [is_dir |-> FALSE, dirs |-> {}]

Registry == load_schema(Resources)

Wrap(v) == JDict(<<<<"value", v>>>>)
Resource(rid, stats) == JDict(<<<<"resource_id", JStr(rid)>>, <<"stats", stats>>>>)

swordGood == Resource("sword", JDict(<<<<"damage", Wrap(JInt(3))>>>>))
swordBad == Resource("sword", JDict(<<<<"id", JStr("s1")>>,
                                      <<"damage", Wrap(JStr("x"))>>,
                                      <<"edge", Wrap(JInt(1))>>>>))
swordOwned == Resource("sword", JDict(<<<<"owner",
                  Wrap(Resource("orc", JDict(<<<<"hp", Wrap(JBool(TRUE))>>>>)))>>>>))
axeDoc == Resource("axe", JDict(<<<<"damage", Wrap(JBool(TRUE))>>>>))
orcNested == Resource("orc", JDict(<<<<"hp", Wrap(JBool(TRUE))>>>>))
noStats == JDict(<<<<"resource_id", JStr("sword")>>>>)
badStats == Resource("sword", JList(<<>>))
noRid == JDict(<<<<"stats", JDict(<<>>)>>>>)
ridNotStr == JDict(<<<<"resource_id", JInt(3)>>, <<"stats", JDict(<<>>)>>>>)
ridEmpty == Resource("", JDict(<<>>))

\* Nested resource values whose document shape fails
ShapeFailures == {JStr("x"), JInt(3), JList(<<>>), noStats, badStats, noRid,
                  ridNotStr, ridEmpty, axeDoc}

\* The values validate_value is applied to
Values ==
    {JNone, JBool(TRUE), JBool(FALSE), JInt(3), JInt(0), JFloat("1.5"), JStr("x"),
     JStr(""), JDict(<<>>), JDict(<<<<"url", JStr("u")>>>>),
     JDict(<<<<"url", JInt(3)>>>>), JDict(<<<<"url", JNone>>>>),
     swordGood, swordBad, swordOwned, orcNested,
     JList(<<>>), JList(<<JNone>>), JList(<<JInt(3), JBool(TRUE), JNone>>),
     JList(<<JStr("x"), JNone, JStr("y")>>),
     JList(<<swordGood, JNone, axeDoc>>), JList(<<noRid, swordBad>>),
     JList(<<JNone, orcNested, JStr("x"), noStats>>),
     JList(<<JList(<<JInt(3)>>), JNone>>)}
    \cup ShapeFailures

Kinds == {"string", "bool", "integer", "photo", "resource", "unknown"}

StatTypes ==
    {StatType(k, a, r) : k \in Kinds, a \in BOOLEAN,
                         r \in {JNone, JStr(""), JStr("sword"), JStr("orc")}}

Paths == {<<>>, <<"resource_id='orc' (id='o1')", "stats.weapon.value">>}

Cores == {"string", "bool", "integer", "photo", "resource", "resource<sword>",
          "resource<orc>", "resource<>", "resource<", "resource>", "resources<x>",
          "resource<a>b", "Integer", "int", "", "]", "[", "string []"}

RECURSIVE markers(_)
markers(n) == IF n = 0 THEN "" ELSE "[]" \o markers(n - 1)

TypeTokens == {core \o markers(n) : core \in Cores, n \in 0..MaxMarkers}

\* The stats entries the generated documents are built from
Entries ==
    {<<"hp", w>> : w \in {Wrap(JBool(TRUE)), Wrap(JInt(3)), Wrap(JFloat("1.5")),
                          Wrap(JStr("x")), JDict(<<>>)}}
    \cup {<<"weapon", Wrap(v)>> : v \in {swordBad, axeDoc, noStats, JStr("x")}}
    \cup {<<"blades", Wrap(v)>> : v \in {JList(<<swordGood, JNone, axeDoc>>),
                                         JList(<<noRid, swordBad>>)}}
    \cup {<<"pet", Wrap(swordGood)>>,
          <<"portrait", Wrap(JDict(<<<<"url", JInt(3)>>>>))>>,
          <<"rolls", Wrap(JList(<<JInt(3), JBool(TRUE), JNone>>))>>,
          <<"zzz", JInt(7)>>,
          <<"updated_at", JInt(5)>>}
    \cup {<<"id", w>> : w \in {JStr("o1"), Wrap(JBool(TRUE)), JInt(7)}}

RECURSIVE StatSeqs(_)
\* The sequences of n entries with distinct keys
StatSeqs(n) ==
    IF n = 0 THEN {<<>>}
    ELSE UNION {{Append(st, e) : e \in {e \in Entries :
                                          \A i \in 1..Len(st) : st[i][1] # e[1]}}
                : st \in StatSeqs(n - 1)}

Documents ==
    {Resource(rid, JDict(st)) : rid \in {"orc", "axe"},
                                st \in UNION {StatSeqs(n) : n \in 0..MaxStats}}
    \cup {swordGood, swordBad, swordOwned, JNone, Resource("axe", JInt(3)),
          JDict(<<<<"resource_id", JStr("axe")>>>>)}
    \cup ShapeFailures

InstancePath == <<"repo", "systems", "5e", "resource_instances", "orc.json">>

\* The files --file may name: [path, is_file, ok, data, exc], where ok tells
\* whether read_json returns (data) or raises (exc).
Files ==
    {[path |-> InstancePath, is_file |-> TRUE, ok |-> TRUE, data |-> d, exc |-> ""]
        : d \in Documents}
    \cup {[path |-> InstancePath, is_file |-> TRUE, ok |-> FALSE, data |-> JNone,
           exc |-> "Expecting value: line 1 column 1 (char 0)"],
          [path |-> InstancePath, is_file |-> FALSE, ok |-> FALSE, data |-> JNone,
           exc |-> ""],
          [path |-> <<"tmp", "orc.json">>, is_file |-> TRUE, ok |-> TRUE,
           data |-> Resource("orc", JDict(<<<<"hp", Wrap(JStr("x"))>>>>)), exc |-> ""],
          [path |-> <<"repo", "systems", "pf2", "resource_instances", "orc.json">>,
           is_file |-> TRUE, ok |-> TRUE, data |-> swordGood, exc |-> ""]}

\* The resources folder of a system: only systems/5e has one.
ResourcesOf(system_name) ==
    IF system_name = "5e" THEN Resources ELSE MissingResources

----------------------------------------------------------------------------
(* main(), run with --file and without --system *)

RECURSIVE find_system(_, _)
\* The loop of infer_system_from_path over the parts from the idx-th on
find_system(parts, idx) ==
    IF idx > Len(parts) THEN JNone
    ELSE IF parts[idx] = "systems" /\ idx + 1 <= Len(parts)
    THEN JStr(parts[idx + 1])
    ELSE find_system(parts, idx + 1)

infer_system_from_path(path, root) ==
    IF Len(path) >= Len(root) /\ SubSeq(path, 1, Len(root)) = root
    THEN find_system(SubSeq(path, Len(root) + 1, Len(path)), 1)
    ELSE JNone

RECURSIVE render_all(_, _)
render_all(errs, i) ==
    IF i > Len(errs) THEN <<>> ELSE <<render(errs[i])>> \o render_all(errs, i + 1)

Idle == JNone

Init ==
    /\ pc = "start"
    /\ file_path \in Files
    /\ resources_root = Idle
    /\ schema = <<>>
    /\ data = Idle
    /\ errors = <<>>
    /\ output = <<>>
    /\ exit_code = Idle
    /\ type_token = "" /\ parsed = Idle /\ element = Idle
    /\ value = Idle /\ stat_type = Idle /\ path_stack = <<>>

\* Lines 356-377: the argument checks and load_schema
Setup ==
    /\ pc = "start"
    /\ IF ~file_path.is_file
       THEN /\ output' = <<"Missing file: /" \o join("/", file_path.path, 1)>>
            /\ exit_code' = JInt(2)
            /\ pc' = "done"
            /\ UNCHANGED <<resources_root, schema>>
       ELSE LET inferred == infer_system_from_path(file_path.path, repo_root)
                system_name == IF inferred # JNone /\ inferred.s # ""
                               THEN inferred.s ELSE "5e"
                resources == ResourcesOf(system_name)
            IN  /\ resources_root' = resources
                /\ IF ~resources.is_dir
                   THEN /\ output' = <<"Missing resources folder: /repo/systems/"
                                       \o system_name \o "/system/resources">>
                        /\ exit_code' = JInt(2)
                        /\ pc' = "done"
                        /\ UNCHANGED schema
                   ELSE /\ schema' = load_schema(resources)
                        /\ pc' = "validate"
                        /\ UNCHANGED <<output, exit_code>>
    /\ UNCHANGED <<file_path, data, errors, type_token, parsed, element, value,
                   stat_type, path_stack>>

\* Lines 378-393: the loop over instance_files, which holds the one file
ValidateFile ==
    /\ pc = "validate"
    /\ IF ~file_path.ok
       THEN /\ errors' = errors \o add_error(file_path.path, repo_root, <<>>,
                                             "Failed to parse JSON: " \o file_path.exc)
            /\ UNCHANGED data
       ELSE /\ data' = file_path.data
            /\ errors' = errors \o validate_resource_instance(
                                       file_path.data, schema, file_path.path,
                                       repo_root, <<>>)
    /\ pc' = "report"
    /\ UNCHANGED <<file_path, resources_root, schema, output, exit_code, type_token,
                   parsed, element, value, stat_type, path_stack>>

\* Lines 395-403: the report and the return value
Report ==
    /\ pc = "report"
    /\ IF errors # <<>>
       THEN /\ output' = <<"Validation errors:">> \o render_all(errors, 1)
                         \o <<ToString(Len(errors)) \o " error(s) found in 1 file(s).">>
            /\ exit_code' = JInt(1)
       ELSE /\ output' = <<"OK: 1 resource instance file(s) validated.">>
            /\ exit_code' = JInt(0)
    /\ pc' = "done"
    /\ UNCHANGED <<file_path, resources_root, schema, data, errors, type_token,
                   parsed, element, value, stat_type, path_stack>>

Next == Setup \/ ValidateFile \/ Report

Spec == Init /\ [][Next]_vars

----------------------------------------------------------------------------
(* validate_value applied to one value *)

InitValue ==
    /\ pc = "value"
    /\ value \in Values
    /\ stat_type \in StatTypes
    /\ path_stack \in Paths
    /\ schema = Registry
    /\ file_path = [path |-> InstancePath, is_file |-> TRUE, ok |-> TRUE,
                    data |-> JNone, exc |-> ""]
    /\ resources_root = Resources
    /\ data = Idle
    /\ errors = <<>>
    /\ output = <<>>
    /\ exit_code = Idle
    /\ type_token = "" /\ parsed = Idle /\ element = Idle

CheckValue ==
    /\ pc = "value"
    /\ errors' = errors \o validate_value(value, stat_type, schema, file_path.path,
                                          repo_root, path_stack)
    /\ pc' = "checked"
    /\ UNCHANGED <<file_path, resources_root, schema, data, output, exit_code,
                   type_token, parsed, element, value, stat_type, path_stack>>

NextValue == CheckValue

SpecValue == InitValue /\ [][NextValue]_vars

----------------------------------------------------------------------------
(* parse_type and element_type applied to one type token *)

InitParse ==
    /\ pc = "token"
    /\ type_token \in TypeTokens
    /\ parsed = Idle
    /\ element = Idle
    /\ file_path = Idle /\ resources_root = Idle /\ schema = <<>> /\ data = Idle
    /\ errors = <<>> /\ output = <<>> /\ exit_code = Idle
    /\ value = Idle /\ stat_type = Idle /\ path_stack = <<>>

ParseType ==
    /\ pc = "token"
    /\ parsed' = parse_type(type_token)
    /\ pc' = "parsed"
    /\ UNCHANGED <<type_token, element, file_path, resources_root, schema, data,
                   errors, output, exit_code, value, stat_type, path_stack>>

ElementType ==
    /\ pc = "parsed"
    /\ element' = element_type(parsed)
    /\ pc' = "element"
    /\ UNCHANGED <<type_token, parsed, file_path, resources_root, schema, data,
                   errors, output, exit_code, value, stat_type, path_stack>>

NextParse == ParseType \/ ElementType

SpecParse == InitParse /\ [][NextParse]_vars

----------------------------------------------------------------------------
(* Properties of parse_type and element_type (SpecParse) *)

\* C7: for every type token that ends in the array marker "[]", a repeated
\* marker included, parse_type's descriptor has is_array set, and its
\* element_type() has is_array cleared and the same kind and resource_type,
\* while the descriptor parse_type returned stays what it was.
C7_ArrayTokenElementType ==
    endswith(type_token, "[]") =>
        /\ pc \in {"parsed", "element"} => parsed.is_array
        /\ pc = "element" =>
              /\ ~element.is_array
              /\ element.kind = parsed.kind
              /\ element.resource_type = parsed.resource_type
              /\ parsed = parse_type(type_token)
              /\ parsed.is_array

C7_Witness ==
    /\ pc = "element"
    /\ type_token = "integer[][]"
    /\ parsed = StatType("unknown", TRUE, JNone)
    /\ element = StatType("unknown", FALSE, JNone)

----------------------------------------------------------------------------
(* Properties of validate_value (SpecValue) *)

Checked == pc = "checked"

\* The error add_error appends for `message` at `stack`
ErrorAt(stack, message) == add_error(file_path.path, repo_root, stack, message)[1]

\* C1: validate_value called with the value null appends no error, whatever
\* the type descriptor (kind, is_array, resource_type) and the path.
C1_NullValueNoError ==
    (Checked /\ value = JNone) => errors = <<>>

C1_Witness ==
    /\ Checked
    /\ value = JNone
    /\ stat_type = StatType("string", TRUE, JStr("sword"))
    /\ path_stack # <<>>
    /\ errors = <<>>

\* The value is an object and the type is resource<K>, not an array
ResourceCase(K) ==
    /\ Checked
    /\ stat_type.kind = "resource"
    /\ ~stat_type.is_array
    /\ stat_type.resource_type = JStr(K)
    /\ isinstance(value, "dict")

\* C4: for a type resource<K> with K non-empty and an object whose
\* resource_id is not K, validate_value appends the resource-kind mismatch
\* error at the value's path and then exactly the errors of the full document
\* validation of that object at the same path: the unknown-resource_id error
\* when its resource_id has no schema.
C4_MismatchThenRecurse ==
    \A K \in {"sword", "orc"} :
        (ResourceCase(K) /\ Get(value, "resource_id") # JStr(K)) =>
            /\ Len(errors) >= 1
            /\ errors[1] = ErrorAt(path_stack,
                                   "Expected resource_id '" \o K \o "', got '"
                                   \o str(Get(value, "resource_id")) \o "'")
            /\ Tail(errors) = validate_resource_instance(
                                  value, schema, file_path.path, repo_root, path_stack)
            /\ (isinstance(Get(value, "resource_id"), "str")
                /\ Get(value, "resource_id").s # ""
                /\ Get(value, "resource_id").s \notin DOMAIN schema)
               => Tail(errors) =
                     <<ErrorAt(path_stack \o <<"resource_id='"
                                               \o Get(value, "resource_id").s \o "'">>,
                               "Unknown resource_id (no stats.rpgs found)")>>

C4_Witness ==
    /\ ResourceCase("sword")
    /\ value = orcNested
    /\ Len(errors) = 2
    /\ errors[2].message = "Expected number, got bool"

\* C9 as claimed: the token resource<> parses to kind resource with the empty
\* string as resource_type, and a nested resource object with a non-empty
\* resource_id then gets a resource-kind mismatch error.
C9_EmptyKindMismatch ==
    /\ parse_type("resource<>") = StatType("resource", FALSE, JStr(""))
    /\ (ResourceCase("") /\ isinstance(Get(value, "resource_id"), "str")
        /\ Get(value, "resource_id").s # "")
       => \E i \in 1..Len(errors) :
             startswith(errors[i].message, "Expected resource_id ''")

\* C9, amended: the token resource<> parses to kind resource with the empty
\* string as resource_type, and validation treats the empty string as no
\* constraint: a nested resource object gets no resource-kind mismatch error,
\* only the errors of its own document validation.
C9_EmptyKindNoConstraint ==
    /\ parse_type("resource<>") = StatType("resource", FALSE, JStr(""))
    /\ ResourceCase("") =>
          /\ errors = validate_resource_instance(
                          value, schema, file_path.path, repo_root, path_stack)
          /\ \A i \in 1..Len(errors) :
                ~startswith(errors[i].message, "Expected resource_id '")

C9_Witness ==
    /\ ResourceCase("")
    /\ stat_type = parse_type("resource<>")
    /\ value = axeDoc
    /\ Len(errors) = 1
    /\ errors[1].message = "Unknown resource_id (no stats.rpgs found)"

RECURSIVE ElementErrors(_, _)
\* The errors of checking each element from index idx (0-based) on against the
\* element type of stat_type, at the path extended by [idx]
ElementErrors(items, idx) ==
    IF idx >= Len(items) THEN <<>>
    ELSE validate_value(items[idx + 1], element_type(stat_type), schema,
                        file_path.path, repo_root,
                        path_stack \o <<"[" \o ToString(idx) \o "]">>)
         \o ElementErrors(items, idx + 1)

\* C10: for a descriptor with is_array set and a non-null value, a value
\* that is no list gets exactly one error, at the current path; a list gets
\* exactly the errors of its elements, each checked against the element type
\* at the path extended by [i], null elements giving none for every kind.
C10_ArrayElementwise ==
    (Checked /\ stat_type.is_array /\ value # JNone) =>
        IF ~isinstance(value, "list")
        THEN errors = <<ErrorAt(path_stack, "Expected array, got " \o value.t)>>
        ELSE /\ errors = ElementErrors(value.items, 0)
             /\ \A i \in 1..Len(value.items) :
                   value.items[i] = JNone =>
                      validate_value(value.items[i], element_type(stat_type), schema,
                                     file_path.path, repo_root,
                                     path_stack \o <<"[" \o ToString(i - 1) \o "]">>)
                      = <<>>

C10_Witness ==
    /\ Checked
    /\ stat_type = StatType("resource", TRUE, JStr("sword"))
    /\ value = JList(<<swordGood, JNone, axeDoc>>)
    /\ Len(errors) = 2
    /\ errors[1].location = format_path(path_stack \o <<"[2]">>)

----------------------------------------------------------------------------
(* Properties of the validation of one document (Spec) *)

\* read_json returned the document and validate_resource_instance has run
Validated ==
    /\ pc \in {"report", "done"}
    /\ file_path.is_file
    /\ file_path.ok
    /\ resources_root = Resources

\* The errors of validating document d as the run validated data
Validate(d) == validate_resource_instance(d, schema, file_path.path, repo_root, <<>>)

ErrSet(errs) == {errs[i] : i \in 1..Len(errs)}

\* d[k] = v: the value is replaced in place, a new key goes last
SetKey(d, k, v) ==
    IF Has(d, k)
    THEN JDict([i \in 1..Len(d.pairs) |->
                  IF d.pairs[i][1] = k THEN <<k, v>> ELSE d.pairs[i]])
    ELSE JDict(Append(d.pairs, <<k, v>>))

\* del d[k]
DelKey(d, k) ==
    LET Keep(p) == p[1] # k IN JDict(SelectSeq(d.pairs, Keep))

\* d with only the keys in keep
Restrict(d, keep) ==
    LET Keep(p) == p[1] \in keep IN JDict(SelectSeq(d.pairs, Keep))

Keys(d) == {d.pairs[i][1] : i \in 1..Len(d.pairs)}

Reverse(seq) == [i \in 1..Len(seq) |-> seq[Len(seq) + 1 - i]]

\* The path's last segment is seg
LastSegment(location, seg) ==
    location = seg \/ endswith(location, " -> " \o seg)

\* data is an object with a string resource_id
HasRid == Validated /\ isinstance(data, "dict")
          /\ isinstance(Get(data, "resource_id"), "str")
          /\ Get(data, "resource_id").s # ""

Rid == Get(data, "resource_id").s
Stats == Get(data, "stats")

\* data has a registered resource_id and a stats object
Known == HasRid /\ Rid \in DOMAIN schema /\ isinstance(Stats, "dict")

\* stats holds only the key s, declared a non-array integer, wrapping value v
OnlyIntegerStat(s) ==
    /\ Known
    /\ Keys(Stats) = {s}
    /\ s \in DOMAIN schema[Rid]
    /\ schema[Rid][s].kind = "integer"
    /\ ~schema[Rid][s].is_array
    /\ isinstance(Get(Stats, s), "dict")
    /\ Has(Get(Stats, s), "value")

IntegerStatRule(s) ==
    LET v == Get(Get(Stats, s), "value") IN
    /\ v.t = "bool" =>
          /\ Len(errors) = 1
          /\ LastSegment(errors[1].location, "stats." \o s \o ".value")
    /\ v.t \in {"int", "float"} => errors = <<>>

StatNames == UNION {DOMAIN Registry[r] : r \in DOMAIN Registry}

\* C2 as claimed: when stats holds only a stat s declared a non-array
\* integer, a boolean value gives exactly one error, whose path ends with
\* stats.<s>.value, and a non-boolean number gives none.
C2_IntegerRejectsBoolAnyStat ==
    \A s \in StatNames : OnlyIntegerStat(s) => IntegerStatRule(s)

\* C2, amended: the same for every stat s other than the reserved names id
\* and updated_at, which are never type-checked.
C2_IntegerRejectsBool ==
    \A s \in StatNames \ META_STATS : OnlyIntegerStat(s) => IntegerStatRule(s)

C2_Witness ==
    /\ OnlyIntegerStat("hp")
    /\ Get(Get(Stats, "hp"), "value") = JBool(TRUE)
    /\ Len(errors) = 1
    /\ errors[1].location = "resource_id='orc' -> stats.hp.value"
    /\ errors[1].message = "Expected number, got bool"

\* C3: an object with a non-empty string resource_id that has no schema gets
\* exactly one error, the unknown-resource_id error, and no error for any
\* statistic, whatever its stats field is.
C3_UnknownResourceIdOneError ==
    (HasRid /\ Rid \notin DOMAIN schema) =>
        /\ errors = <<ErrorAt(<<"resource_id='" \o Rid \o "'">>,
                              "Unknown resource_id (no stats.rpgs found)")>>
        /\ \A i \in 1..Len(errors) :
              \A k \in (IF isinstance(Stats, "dict") THEN Keys(Stats) ELSE {}) :
                 /\ ~LastSegment(errors[i].location, "stats." \o k)
                 /\ ~LastSegment(errors[i].location, "stats." \o k \o ".value")

C3_Witness ==
    /\ HasRid
    /\ Rid = "axe"
    /\ isinstance(Stats, "dict")
    /\ Stats.pairs = <<<<"zzz", JInt(7)>>, <<"hp", Wrap(JBool(TRUE))>>>>
    /\ Len(errors) = 1

\* data with only the stats keys in keep
RestrictStats(keep) == SetKey(data, "stats", Restrict(Stats, keep))

\* The stat produces no error when it is the only one
ValidAlone(k) ==
    /\ k \in DOMAIN schema[Rid]
    /\ k \notin META_STATS
    /\ Validate(RestrictStats({k})) = <<>>

MetaValues == {JNone, JInt(7), JStr("o2"), JDict(<<>>), Wrap(JBool(TRUE)),
               Wrap(JStr("x")), Wrap(axeDoc), JList(<<JInt(1)>>)}

\* C6: the stats keys id and updated_at never produce an error: giving one
\* of them any value (no object, an object without a value field, a wrapped
\* value of any type), or removing it, leaves the number of errors of the
\* document unchanged, whether or not the schema declares the key.
C6_MetaStatsNeverChecked ==
    Known =>
        \A m \in META_STATS :
            /\ \A w \in MetaValues :
                  Len(Validate(SetKey(data, "stats", SetKey(Stats, m, w))))
                  = Len(errors)
            /\ Len(Validate(SetKey(data, "stats", DelKey(Stats, m)))) = Len(errors)
            /\ \A i \in 1..Len(errors) :
                  /\ ~LastSegment(errors[i].location, "stats." \o m)
                  /\ ~LastSegment(errors[i].location, "stats." \o m \o ".value")

C6_Witness ==
    /\ Known
    /\ Rid = "orc"
    /\ "id" \in DOMAIN schema[Rid]
    /\ Stats.pairs = <<<<"id", Wrap(JBool(TRUE))>>, <<"hp", Wrap(JStr("x"))>>>>
    /\ Len(errors) = 1

\* The document shape of a nested resource value fails
ShapeFails(v) ==
    \/ ~isinstance(v, "dict")
    \/ ~isinstance(Get(v, "resource_id"), "str")
    \/ Get(v, "resource_id").s = ""
    \/ Get(v, "resource_id").s \notin DOMAIN schema
    \/ ~isinstance(Get(v, "stats"), "dict")

\* The stats entry k holds a wrapped value of a declared resource type
ResourceStat(k) ==
    /\ k \notin META_STATS
    /\ k \in DOMAIN schema[Rid]
    /\ schema[Rid][k].kind = "resource"
    /\ isinstance(Get(Stats, k), "dict")
    /\ Has(Get(Stats, k), "value")

ValueOf(k) == Get(Get(Stats, k), "value")

\* data with the wrapped value of stat k replaced by v
WithValue(k, v) ==
    SetKey(data, "stats", SetKey(Stats, k, SetKey(Get(Stats, k), "value", v)))

ValuePath(k) == <<resource_label(data), "stats." \o k \o ".value">>

\* errs without the errors in gone
Without(errs, gone) ==
    LET Keep(e) == e \notin ErrSet(gone) IN SelectSeq(errs, Keep)

\* C8: a document-shape failure of a nested resource value stops the check
\* of that node only: it emits its own errors, and the errors of every other
\* stats key and of every other element of the same array are those of the
\* document with the failing node replaced by null.
C8_ShapeFailureIsLocal ==
    Known =>
        \A k \in Keys(Stats) :
            ResourceStat(k) =>
                /\ (~schema[Rid][k].is_array /\ ValueOf(k) # JNone
                    /\ ShapeFails(ValueOf(k))) =>
                      LET own == validate_value(ValueOf(k), schema[Rid][k], schema,
                                                file_path.path, repo_root, ValuePath(k))
                      IN  /\ own # <<>>
                          /\ ErrSet(own) \subseteq ErrSet(errors)
                          /\ Without(errors, own) = Validate(WithValue(k, JNone))
                /\ (schema[Rid][k].is_array /\ isinstance(ValueOf(k), "list")) =>
                      \A i \in 1..Len(ValueOf(k).items) :
                          LET items == ValueOf(k).items IN
                          (items[i] # JNone /\ ShapeFails(items[i])) =>
                            LET own == validate_value(
                                           items[i], element_type(schema[Rid][k]),
                                           schema, file_path.path, repo_root,
                                           ValuePath(k)
                                           \o <<"[" \o ToString(i - 1) \o "]">>)
                            IN  /\ own # <<>>
                                /\ ErrSet(own) \subseteq ErrSet(errors)
                                /\ Without(errors, own) =
                                      Validate(WithValue(k,
                                          JList([j \in 1..Len(items) |->
                                                   IF j = i THEN JNone ELSE items[j]])))

C8_Witness ==
    /\ Known
    /\ Stats.pairs = <<<<"blades", Wrap(JList(<<noRid, swordBad>>))>>,
                       <<"hp", Wrap(JBool(TRUE))>>>>
    /\ Len(errors) = 5

====
